---- MODULE Spec2Model ----
(***************************************************************************)
(* The blog data-access module (src/lib/blog.ts) and the three REST routes *)
(* built on it: the upstream fetch with retry and fallback, the in-memory  *)
(* cache, pagination, slug and tag lookup, and the JSON envelopes.         *)
(*                                                                         *)
(* An excerpt is a sequence of strings.  Upstream excerpts are given       *)
(* character by character, so that the tag-stripping regex and trim() are  *)
(* computed; the hard-coded fallback excerpts are one-chunk sequences.     *)
(* The long fallback texts (title, excerpt, content) are abbreviated to    *)
(* their opening words.  Times are milliseconds, as Date.now() and         *)
(* setTimeout count them.                                                  *)
(***************************************************************************)
EXTENDS Integers, Sequences, FiniteSets, TLC

(* ------------------------------------------------------------------ *)
(* Values of the host language                                         *)
(* ------------------------------------------------------------------ *)

\* An optional value is boxed: Null (null or undefined) is the empty tuple and
\* a present value v is the one-element tuple Box(v), so that an empty array
\* (truthy in JavaScript) is never confused with null.
Null == << >>

Box(v) == << v >>

Unbox(b) == b[1]

\* JavaScript undefined as the value of an optional string field.
Undefined == "undefined"

\* No setTimeout pending for a request.
NoTimer == -1

Min(a, b) == IF a < b THEN a ELSE b

Max(a, b) == IF a > b THEN a ELSE b

(* ------------------------------------------------------------------ *)
(* Program constants                                                   *)
(* ------------------------------------------------------------------ *)

CACHE_DURATION == 300000

maxRetries == 3

\* setTimeout(() => controller.abort(), 20000)
RequestTimeout == 20000

\* const delay = attempt * 2000
BackoffUnit == 2000

\* parseInt(searchParams.get("page") || "1")
DefaultPage == 1

\* parseInt(searchParams.get("limit") || "10")
DefaultLimit == 10

\* posts.slice(0, 3) in the featured branch and in getFeaturedPosts
FeaturedCount == 3

(* ------------------------------------------------------------------ *)
(* Array and string primitives                                         *)
(* ------------------------------------------------------------------ *)

\* Array.prototype.slice(start, end): negative indices count from the end,
\* both are clamped to 0..length, and the result is empty when end <= start.
RelIndex(i, len) == IF i < 0 THEN Max(len + i, 0) ELSE Min(i, len)

Slice(s, start, end) ==
    LET from == RelIndex(start, Len(s))
        to   == RelIndex(end, Len(s))
    IN  IF to <= from THEN << >> ELSE SubSeq(s, from + 1, to)

\* Math.ceil(a / b) for a >= 0 and b >= 1.
CeilDiv(a, b) == (a + b - 1) \div b

\* The characters String.prototype.trim() removes that occur in the inputs.
IsSpace(c) == c \in {" ", "\n", "\t"}

\* Index of the first ">" at or after position i, or 0.
RECURSIVE NextClose(_, _)
NextClose(s, i) ==
    IF i > Len(s) THEN 0
    ELSE IF s[i] = ">" THEN i
    ELSE NextClose(s, i + 1)

\* excerpt.replace(/<[^>]*>/g, ""): scanning from position i, a "<" that has a
\* later ">" is removed together with everything up to the first such ">";
\* a "<" with no ">" after it stays.
RECURSIVE StripTagsFrom(_, _)
StripTagsFrom(s, i) ==
    IF i > Len(s) THEN << >>
    ELSE IF s[i] = "<" /\ NextClose(s, i + 1) # 0
         THEN StripTagsFrom(s, NextClose(s, i + 1) + 1)
         ELSE << s[i] >> \o StripTagsFrom(s, i + 1)

StripTags(s) == StripTagsFrom(s, 1)

RECURSIVE TrimStart(_)
TrimStart(s) ==
    IF s # << >> /\ IsSpace(Head(s)) THEN TrimStart(Tail(s)) ELSE s

RECURSIVE TrimEnd(_)
TrimEnd(s) ==
    IF s # << >> /\ IsSpace(s[Len(s)]) THEN TrimEnd(SubSeq(s, 1, Len(s) - 1)) ELSE s

\* String.prototype.trim()
Trim(s) == TrimEnd(TrimStart(s))

(* ------------------------------------------------------------------ *)
(* Upstream data: what the WordPress REST API may send                 *)
(* ------------------------------------------------------------------ *)

\* A post with embedded author, featured media and a first term group that
\* mixes tags and a category; the excerpt is "<p>a b</p>\n".
WpAlpha ==
    [id |-> 101, date |-> "2025-03-01T10:00:00", modified |-> "2025-03-02T10:00:00",
     slug |-> "alpha", status |-> "publish",
     title |-> "Alpha", content |-> "<p>alpha body</p>",
     excerpt |-> << "<", "p", ">", "a", " ", "b", "<", "/", "p", ">", "\n" >>,
     embedded |-> Box([
        author |-> Box(<< [name |-> "Jane Doe"] >>),
        media  |-> Box(<< [source_url |-> "https://img/alpha.png"] >>),
        term   |-> Box(<< << [slug |-> "nhs", taxonomy |-> "post_tag"],
                             [slug |-> "general", taxonomy |-> "category"],
                             [slug |-> "wordpress", taxonomy |-> "post_tag"] >> >>)])]

\* A post without _embedded; the excerpt " a < b" has an unclosed "<".
WpBeta ==
    [id |-> 102, date |-> "2025-02-01T09:00:00", modified |-> "2025-02-01T09:30:00",
     slug |-> "beta", status |-> "publish",
     title |-> "Beta", content |-> "<p>beta body</p>",
     excerpt |-> << " ", "a", " ", "<", " ", "b" >>,
     embedded |-> Null]

\* A draft that repeats the slug of WpAlpha, with an empty author name, an
\* empty media list and tags that differ only in case.
WpGamma ==
    [id |-> 7, date |-> "2025-01-01T08:00:00", modified |-> "2025-01-05T08:00:00",
     slug |-> "alpha", status |-> "draft",
     title |-> "Gamma", content |-> "<p>gamma body</p>",
     excerpt |-> << "<", "b", ">", "<", "i", ">", "c", ">", "<" >>,
     embedded |-> Box([
        author |-> Box(<< [name |-> ""] >>),
        media  |-> Box(<< >>),
        term   |-> Box(<< << [slug |-> "NHS", taxonomy |-> "post_tag"],
                             [slug |-> "nhs", taxonomy |-> "post_tag"] >> >>)])]

\* A post whose _embedded carries none of the three keys.
WpDelta ==
    [id |-> 104, date |-> "2024-12-01T08:00:00", modified |-> "2024-12-01T08:00:00",
     slug |-> "delta", status |-> "publish",
     title |-> "Delta", content |-> "<p>delta body</p>",
     excerpt |-> << "d" >>,
     embedded |-> Box([author |-> Null, media |-> Null, term |-> Null])]

\* The upstream blog, newest first.
WpFeed == << WpAlpha, WpBeta, WpGamma, WpDelta >>

(* ------------------------------------------------------------------ *)
(* blog.ts: transformation and fallback                                *)
(* ------------------------------------------------------------------ *)

\* x?.[0]: the first element of a boxed array, or Null.
First(boxed) ==
    IF boxed = Null THEN Null
    ELSE IF Unbox(boxed) = << >> THEN Null
    ELSE Box(Unbox(boxed)[1])

\* wpPost._embedded?.author?.[0]?.name || "Faith Nte"
AuthorName(wpPost) ==
    LET a == IF wpPost.embedded = Null THEN Null
             ELSE First(Unbox(wpPost.embedded).author)
    IN  IF a = Null THEN "Faith Nte"
        ELSE IF Unbox(a).name = "" THEN "Faith Nte"
        ELSE Unbox(a).name

\* wpPost._embedded?.["wp:featuredmedia"]?.[0]?.source_url
CoverImage(wpPost) ==
    LET m == IF wpPost.embedded = Null THEN Null
             ELSE First(Unbox(wpPost.embedded).media)
    IN  IF m = Null THEN Undefined ELSE Unbox(m).source_url

\* terms.filter(term => term.taxonomy === "post_tag").map(tag => tag.slug)
RECURSIVE TagSlugs(_)
TagSlugs(terms) ==
    IF terms = << >> THEN << >>
    ELSE (IF Head(terms).taxonomy = "post_tag" THEN << Head(terms).slug >> ELSE << >>)
         \o TagSlugs(Tail(terms))

\* wpPost._embedded?.["wp:term"]?.[0]?.filter(...)?.map(...) || []
Tags(wpPost) ==
    LET g == IF wpPost.embedded = Null THEN Null
             ELSE First(Unbox(wpPost.embedded).term)
    IN  IF g = Null THEN << >> ELSE TagSlugs(Unbox(g))

\* wpPost.excerpt.rendered.replace(/<[^>]*>/g, "").trim()
CleanExcerpt(wpPost) == Trim(StripTags(wpPost.excerpt))

transformWordPressPost(wpPost) ==
    [id          |-> ToString(wpPost.id),
     title       |-> wpPost.title,
     slug        |-> wpPost.slug,
     excerpt     |-> CleanExcerpt(wpPost),
     content     |-> wpPost.content,
     author      |-> AuthorName(wpPost),
     publishedAt |-> wpPost.date,
     updatedAt   |-> wpPost.modified,
     tags        |-> Tags(wpPost),
     featured    |-> FALSE,
     published   |-> (wpPost.status = "publish"),
     coverImage  |-> CoverImage(wpPost)]

\* wpPosts.map(transformWordPressPost)
TransformAll(wpPosts) == [i \in 1..Len(wpPosts) |-> transformWordPressPost(wpPosts[i])]

getFallbackPosts ==
    << [id          |-> "49",
        title       |-> "How We Transformed NHS GP Website with WordPress & Nightingale Theme",
        slug        |-> "gp-website-with-wordpress-nightingale-theme",
        excerpt     |-> << "In May 2023, NHSE released a GP website benchmarking and improvement tool." >>,
        content     |-> "<div id=\"ez-toc-container\"",
        author      |-> "Faith Nte",
        publishedAt |-> "2025-01-12T22:06:33",
        updatedAt   |-> "2025-02-03T20:04:28",
        tags        |-> << "nhs", "wordpress", "website" >>,
        featured    |-> TRUE,
        published   |-> TRUE,
        coverImage  |-> "https://blog.faithnte.com/wp-content/uploads/2025/01/transformed-gp-website-with-wordpress-cms-and-nightingale-theme.png"],
       [id          |-> "22",
        title       |-> "Achieved 9% Growth in NHS App Uptake in 8 Months",
        slug        |-> "9-nhs-app-uptake-in-8-months",
        excerpt     |-> << "Our PCN got into 2024 at 55% NHS App uptake." >>,
        content     |-> "<p>Our PCN got into 2024 at 55% NHS App uptake.",
        author      |-> "Faith Nte",
        publishedAt |-> "2025-01-01T21:49:13",
        updatedAt   |-> "2025-02-03T20:04:51",
        tags        |-> << "nhs", "digital-transformation" >>,
        featured    |-> TRUE,
        published   |-> TRUE,
        coverImage  |-> "https://blog.faithnte.com/wp-content/uploads/2025/01/nhs-app-uptake-growth.png"],
       [id          |-> "7",
        title       |-> "Care Home Proxy Access: How We Did It",
        slug        |-> "care-home-proxy-access",
        excerpt     |-> << "Care home proxy access enables care home staff to access residents' GP services on time." >>,
        content     |-> "<p class=\"has-text-align-center\"><em>Care home proxy access",
        author      |-> "Faith Nte",
        publishedAt |-> "2024-12-21T12:11:50",
        updatedAt   |-> "2025-02-03T20:05:15",
        tags        |-> << "nhs", "care-homes" >>,
        featured    |-> TRUE,
        published   |-> TRUE,
        coverImage  |-> "https://blog.faithnte.com/wp-content/uploads/2024/12/care-home-proxy-access.png"] >>

(* ------------------------------------------------------------------ *)
(* blog.ts: the read functions, given the list getAllPosts returned    *)
(* ------------------------------------------------------------------ *)

\* Variant: the whole post is passed on ({ ...post }).
toMetaSpread(post) == post

\* The object literal that builds a BlogPostMeta (blog.ts and both list routes).
toMeta(post) ==
    [id          |-> post.id,
     title       |-> post.title,
     slug        |-> post.slug,
     excerpt     |-> post.excerpt,
     author      |-> post.author,
     publishedAt |-> post.publishedAt,
     tags        |-> post.tags,
     featured    |-> post.featured,
     coverImage  |-> post.coverImage]

MetasOf(posts) == [i \in 1..Len(posts) |-> toMeta(posts[i])]

\* Variant: the window starts one page late (page * limit).
getPaginatedPostsPageLate(allPosts, page, limit) ==
    LET startIndex == page * limit
        endIndex   == startIndex + limit
        posts      == Slice(allPosts, startIndex, endIndex)
        totalPosts == Len(allPosts)
        totalPages == CeilDiv(totalPosts, limit)
    IN  [posts |-> MetasOf(posts),
         pagination |-> [currentPage |-> page,
                         totalPages  |-> totalPages,
                         totalPosts  |-> totalPosts,
                         hasNext     |-> page < totalPages,
                         hasPrev     |-> page > 1]]

getPaginatedPosts(allPosts, page, limit) ==
    LET startIndex == (page - 1) * limit
        endIndex   == startIndex + limit
        posts      == Slice(allPosts, startIndex, endIndex)
        totalPosts == Len(allPosts)
        totalPages == CeilDiv(totalPosts, limit)
    IN  [posts |-> MetasOf(posts),
         pagination |-> [currentPage |-> page,
                         totalPages  |-> totalPages,
                         totalPosts  |-> totalPosts,
                         hasNext     |-> page < totalPages,
                         hasPrev     |-> page > 1]]

\* Variant: the last post with the slug is taken instead of the first.
getPostBySlugLast(allPosts, slug) ==
    IF \E i \in 1..Len(allPosts) : allPosts[i].slug = slug
    THEN Box(allPosts[CHOOSE i \in 1..Len(allPosts) :
                 /\ allPosts[i].slug = slug
                 /\ \A j \in (i + 1)..Len(allPosts) : allPosts[j].slug # slug])
    ELSE Null

\* allPosts.find(post => post.slug === slug) || null
getPostBySlug(allPosts, slug) ==
    IF \E i \in 1..Len(allPosts) : allPosts[i].slug = slug
    THEN Box(allPosts[CHOOSE i \in 1..Len(allPosts) :
                 /\ allPosts[i].slug = slug
                 /\ \A j \in 1..(i - 1) : allPosts[j].slug # slug])
    ELSE Null

\* Array.prototype.includes on a tags array
Includes(tags, tag) == \E i \in 1..Len(tags) : tags[i] = tag

\* Variant: only a post's first tag is compared (tags[0] === tag).
RECURSIVE getPostsByFirstTag(_, _)
getPostsByFirstTag(allPosts, tag) ==
    IF allPosts = << >> THEN << >>
    ELSE (IF Head(allPosts).tags # << >> /\ Head(allPosts).tags[1] = tag
          THEN << Head(allPosts) >> ELSE << >>)
         \o getPostsByFirstTag(Tail(allPosts), tag)

\* allPosts.filter(post => post.tags.includes(tag))
RECURSIVE getPostsByTag(_, _)
getPostsByTag(allPosts, tag) ==
    IF allPosts = << >> THEN << >>
    ELSE (IF Includes(Head(allPosts).tags, tag) THEN << Head(allPosts) >> ELSE << >>)
         \o getPostsByTag(Tail(allPosts), tag)

\* Variant: every post is marked, the slice(0, 3) is left out.
getFeaturedPostsUncut(allPosts) ==
    [i \in 1..Len(allPosts) |-> [allPosts[i] EXCEPT !.featured = TRUE]]

\* allPosts.slice(0, 3).map(post => ({ ...post, featured: true }))
getFeaturedPosts(allPosts) ==
    LET first == Slice(allPosts, 0, FeaturedCount)
    IN  [i \in 1..Len(first) |-> [first[i] EXCEPT !.featured = TRUE]]

\* The UTF-16 code units of the tag strings that occur.
CodeUnits(s) ==
    CASE s = "NHS" -> << 78, 72, 83 >>
      [] s = "care-homes" -> << 99, 97, 114, 101, 45, 104, 111, 109, 101, 115 >>
      [] s = "digital-transformation" -> << 100, 105, 103, 105, 116, 97, 108, 45, 116, 114, 97, 110, 115, 102, 111, 114, 109, 97, 116, 105, 111, 110 >>
      [] s = "nhs" -> << 110, 104, 115 >>
      [] s = "website" -> << 119, 101, 98, 115, 105, 116, 101 >>
      [] s = "wordpress" -> << 119, 111, 114, 100, 112, 114, 101, 115, 115 >>

\* a < b as the default comparator of Array.prototype.sort orders strings:
\* code unit by code unit, a proper prefix first.
RECURSIVE UnitsLess(_, _)
UnitsLess(a, b) ==
    IF b = << >> THEN FALSE
    ELSE IF a = << >> THEN TRUE
    ELSE IF Head(a) # Head(b) THEN Head(a) < Head(b)
    ELSE UnitsLess(Tail(a), Tail(b))

StringLess(a, b) == UnitsLess(CodeUnits(a), CodeUnits(b))

\* tags.add(tag): a Set keeps insertion order and ignores a value it holds.
SetAdd(set, tag) == IF Includes(set, tag) THEN set ELSE Append(set, tag)

\* post.tags.forEach(tag => tags.add(tag))
RECURSIVE AddTags(_, _)
AddTags(set, tags) ==
    IF tags = << >> THEN set ELSE AddTags(SetAdd(set, Head(tags)), Tail(tags))

\* allPosts.forEach(post => ...) starting from the Set `set`
RECURSIVE CollectTags(_, _)
CollectTags(set, allPosts) ==
    IF allPosts = << >> THEN set
    ELSE CollectTags(AddTags(set, Head(allPosts).tags), Tail(allPosts))

\* Insertion of x into the sorted array, after the elements not greater.
RECURSIVE InsertSorted(_, _)
InsertSorted(sorted, x) ==
    IF sorted = << >> THEN << x >>
    ELSE IF StringLess(x, Head(sorted)) THEN << x >> \o sorted
    ELSE << Head(sorted) >> \o InsertSorted(Tail(sorted), x)

\* Array.prototype.sort() with the default comparator (stable).
RECURSIVE SortStrings(_)
SortStrings(arr) ==
    IF arr = << >> THEN << >>
    ELSE InsertSorted(SortStrings(SubSeq(arr, 1, Len(arr) - 1)), arr[Len(arr)])

\* Variant: the Set is returned in insertion order, sort() is left out.
getAllTagsUnsorted(allPosts) == CollectTags(<< >>, allPosts)

\* Array.from(tags).sort()
getAllTags(allPosts) == SortStrings(CollectTags(<< >>, allPosts))

(* ------------------------------------------------------------------ *)
(* The routes: parameters, JSON and envelopes                          *)
(* ------------------------------------------------------------------ *)

\* JSON.stringify of a post or meta record: a key whose value is undefined is
\* left out, every other key is written with its value.
JsonRecord(r) ==
    IF r.coverImage = Undefined
    THEN [k \in (DOMAIN r) \ {"coverImage"} |-> r[k]]
    ELSE r

JsonList(rs) == [i \in 1..Len(rs) |-> JsonRecord(rs[i])]

\* new Response(JSON.stringify(response), { status })
Ok(data) == [status |-> 200, body |-> [success |-> TRUE, data |-> data]]

\* Variant: the status is left out of the Response, which then is 200.
FailWithoutStatus(status, error) ==
    [status |-> 200, body |-> [success |-> FALSE, error |-> error]]

Fail(status, error) == [status |-> status, body |-> [success |-> FALSE, error |-> error]]

\* The catch block of each route: status 500 with the error's message.  No
\* step takes it: getAllPosts catches every upstream failure, so the awaited
\* calls never reject.
ServerErrorResponse(route, message) ==
    [status |-> 500,
     body |-> [success |-> FALSE,
               error |-> IF route = "blog" THEN "Failed to fetch blog posts"
                         ELSE IF route = "slug" THEN "Failed to fetch blog post"
                         ELSE "Failed to fetch blog posts by tag",
               message |-> message]]

\* !slug, !tag: the route parameter is undefined or the empty string.
Missing(param) == IF param = Null THEN TRUE ELSE Unbox(param) = ""

\* parseInt(searchParams.get(name) || fallback) for an absent or decimal value.
IntParam(param, fallback) == IF param = Null THEN fallback ELSE Unbox(param)

\* What each route answers once getAllPosts has returned allPosts.
\* GET /api/blog
BlogIndexResponse(req, allPosts) ==
    IF req.featured
    THEN Ok(JsonList(MetasOf(getFeaturedPosts(allPosts))))
    ELSE LET r == getPaginatedPosts(allPosts, IntParam(req.page, DefaultPage),
                                    IntParam(req.limit, DefaultLimit))
         IN  Ok([posts |-> JsonList(r.posts), pagination |-> r.pagination])

\* GET /api/blog/[slug]
SlugResponse(req, allPosts) ==
    LET post == getPostBySlug(allPosts, Unbox(req.slug))
    IN  IF post = Null THEN Fail(404, "Post not found")
        ELSE Ok(JsonRecord(Unbox(post)))

\* GET /api/blog/tags/[tag]
TagResponse(req, allPosts) ==
    Ok(JsonList(MetasOf(getPostsByTag(allPosts, Unbox(req.tag)))))

\* The 400 answers, given before any data access.
BadRequestResponse(req) ==
    IF req.route = "slug" THEN Fail(400, "Slug parameter is required")
    ELSE Fail(400, "Tag parameter is required")

IsBadRequest(req) ==
    IF req.route = "slug" THEN Missing(req.slug)
    ELSE IF req.route = "tag" THEN Missing(req.tag)
    ELSE FALSE

\* A direct caller of getAllPosts (a page) gets the list and sends no envelope;
\* a caller of getAllTags gets the tag array.
Response(req, allPosts) ==
    IF req.route = "blog" THEN Box(BlogIndexResponse(req, allPosts))
    ELSE IF req.route = "slug" THEN Box(SlugResponse(req, allPosts))
    ELSE IF req.route = "tag" THEN Box(TagResponse(req, allPosts))
    ELSE IF req.route = "tags" THEN Box(getAllTags(allPosts))
    ELSE Null

(* ------------------------------------------------------------------ *)
(* Bounds and inputs                                                   *)
(* ------------------------------------------------------------------ *)

\* No request arrives after this time (ms); timers already set still run out.
MaxTime == 300000

\* Longest upstream answer, in posts.
MaxUpstream == 4

\* Largest page number and page size asked for.
MaxPage == 4

MaxLimit == 3

\* The request handlers that may be in flight together.
Procs == {"r1", "r2"}

\* The JSON arrays the upstream may answer with: windows of the feed.
Bodies ==
    {SubSeq(WpFeed, i, j) : i \in 1..2, j \in 0..Min(MaxUpstream, Len(WpFeed))}

\* The answers used where only their difference matters: no posts, the feed,
\* and the feed without its newest post.
FeedBodies ==
    {<< >>, SubSeq(WpFeed, 1, Min(MaxUpstream, Len(WpFeed))),
            SubSeq(WpFeed, 2, Min(MaxUpstream, Len(WpFeed)))}

\* A page importing getAllPosts directly.
LibRequests == {[route |-> "lib"]}

\* A page importing getAllTags.
TagsCalls == {[route |-> "tags"]}

Optional(S) == {Null} \cup {Box(v) : v \in S}

BlogRequests ==
    [route : {"blog"}, featured : {FALSE},
     page : Optional((0 - MaxPage)..MaxPage), limit : Optional(1..MaxLimit)]
    \cup
    [route : {"blog"}, featured : {TRUE},
     page : Optional({2}), limit : Optional({1})]

SlugRequests ==
    [route : {"slug"},
     slug : Optional({"", "alpha", "beta", "care-home-proxy-access", "Alpha"})]

TagRequests ==
    [route : {"tag"},
     tag : Optional({"", "nhs", "NHS", "wordpress", "website", "none"})]

RouteRequests == BlogRequests \cup SlugRequests \cup TagRequests

(* ------------------------------------------------------------------ *)
(* State                                                               *)
(* ------------------------------------------------------------------ *)

VARIABLES
    postsCache,      \* Null or Box(list of BlogPost)
    cacheTimestamp,  \* the `now` of the getAllPosts call that stored postsCache
    storedAt,        \* history: the clock when postsCache was last assigned
    now,             \* the clock Date.now() reads
    pc,              \* where each handler is: idle, fetch, json, backoff
    req,             \* the request each handler is serving
    attempt,         \* the loop variable of fetchWordPressPosts
    failed,          \* history: how often the call in progress entered the catch block
    callNow,         \* the local `now` of the getAllPosts call in progress
    timer,           \* when the handler's pending setTimeout fires
    last             \* what the step just taken delivered, if it finished a request

vars == << postsCache, cacheTimestamp, storedAt, now, pc, req, attempt, failed, callNow, timer, last >>

NoRequest == [route |-> "none"]

\* The step finished no request.
NoOutput ==
    [proc |-> "none", req |-> NoRequest, source |-> "none",
     attempts |-> 0, failed |-> 0, wp |-> << >>, posts |-> Null, response |-> Null]

Init ==
    /\ postsCache = Null
    /\ cacheTimestamp = 0
    /\ storedAt = 0
    /\ now = 0
    /\ pc = [p \in Procs |-> "idle"]
    /\ req = [p \in Procs |-> NoRequest]
    /\ attempt = [p \in Procs |-> 0]
    /\ failed = [p \in Procs |-> 0]
    /\ callNow = [p \in Procs |-> 0]
    /\ timer = [p \in Procs |-> NoTimer]
    /\ last = NoOutput

(* ------------------------------------------------------------------ *)
(* getAllPosts                                                         *)
(* ------------------------------------------------------------------ *)

\* Variant: the cache is still taken as valid at exactly CACHE_DURATION.
CacheValidInclusive(cache, stamp, t) == cache # Null /\ t - stamp <= CACHE_DURATION

\* postsCache && now - cacheTimestamp < CACHE_DURATION
CacheValid(cache, stamp, t) == cache # Null /\ t - stamp < CACHE_DURATION

\* The handler is done: it has the list and answers.
Finish(p, r, source, wp, posts, failures) ==
    /\ pc' = [pc EXCEPT ![p] = "idle"]
    /\ req' = [req EXCEPT ![p] = NoRequest]
    /\ attempt' = [attempt EXCEPT ![p] = 0]
    /\ failed' = [failed EXCEPT ![p] = 0]
    /\ callNow' = [callNow EXCEPT ![p] = 0]
    /\ timer' = [timer EXCEPT ![p] = NoTimer]
    /\ last' = [proc |-> p, req |-> r, source |-> source,
                attempts |-> attempt[p], failed |-> failures,
                wp |-> wp, posts |-> Box(posts),
                response |-> Response(r, posts)]

\* Variant: the fetched posts are appended to the cached ones instead of
\* replacing them.
StoreAndReturnMerging(p, source, wp, posts, failures) ==
    /\ postsCache' = Box((IF postsCache = Null THEN << >> ELSE Unbox(postsCache)) \o posts)
    /\ cacheTimestamp' = callNow[p]
    /\ storedAt' = now
    /\ Finish(p, req[p], source, wp, Unbox(postsCache'), failures)
    /\ UNCHANGED now

\* Variant: the cache is looked at again after the fetch, and a result stored
\* meanwhile by another call is returned instead of being overwritten.
StoreAndReturnIfStale(p, source, wp, posts, failures) ==
    IF CacheValid(postsCache, cacheTimestamp, now)
    THEN /\ Finish(p, req[p], "cache", << >>, Unbox(postsCache), failures)
         /\ UNCHANGED << postsCache, cacheTimestamp, storedAt, now >>
    ELSE /\ postsCache' = Box(posts)
         /\ cacheTimestamp' = callNow[p]
         /\ storedAt' = now
         /\ Finish(p, req[p], source, wp, Unbox(postsCache'), failures)
         /\ UNCHANGED now

\* postsCache = await fetchWordPressPosts(); cacheTimestamp = now; return postsCache
StoreAndReturn(p, source, wp, posts, failures) ==
    /\ postsCache' = Box(posts)
    /\ cacheTimestamp' = callNow[p]
    /\ storedAt' = now
    /\ Finish(p, req[p], source, wp, Unbox(postsCache'), failures)
    /\ UNCHANGED now

\* A slug or tag route without its parameter answers 400 at once.
BadRequest(p, r) ==
    /\ pc[p] = "idle"
    /\ now <= MaxTime
    /\ IsBadRequest(r)
    /\ last' = [proc |-> p, req |-> r, source |-> "none", attempts |-> 0, failed |-> 0,
                wp |-> << >>, posts |-> Null, response |-> Box(BadRequestResponse(r))]
    /\ UNCHANGED << postsCache, cacheTimestamp, storedAt, now, pc, req, attempt, failed,
                    callNow, timer >>

\* getAllPosts finds the cache valid and returns it.
CacheHit(p, r) ==
    /\ pc[p] = "idle"
    /\ now <= MaxTime
    /\ ~IsBadRequest(r)
    /\ CacheValid(postsCache, cacheTimestamp, now)
    /\ Finish(p, r, "cache", << >>, Unbox(postsCache), 0)
    /\ UNCHANGED << postsCache, cacheTimestamp, storedAt, now >>

\* getAllPosts finds no valid cache: fetchWordPressPosts starts attempt 1.
CacheMiss(p, r) ==
    /\ pc[p] = "idle"
    /\ now <= MaxTime
    /\ ~IsBadRequest(r)
    /\ ~CacheValid(postsCache, cacheTimestamp, now)
    /\ pc' = [pc EXCEPT ![p] = "fetch"]
    /\ req' = [req EXCEPT ![p] = r]
    /\ attempt' = [attempt EXCEPT ![p] = 1]
    /\ failed' = [failed EXCEPT ![p] = 0]
    /\ callNow' = [callNow EXCEPT ![p] = now]
    /\ timer' = [timer EXCEPT ![p] = now + RequestTimeout]
    /\ last' = NoOutput
    /\ UNCHANGED << postsCache, cacheTimestamp, storedAt, now >>

(* ------------------------------------------------------------------ *)
(* fetchWordPressPosts                                                 *)
(* ------------------------------------------------------------------ *)

\* Variant: the loop gives up one attempt early.
CatchOneEarly(p) ==
    IF attempt[p] + 1 < maxRetries
    THEN /\ pc' = [pc EXCEPT ![p] = "backoff"]
         /\ failed' = [failed EXCEPT ![p] = failed[p] + 1]
         /\ timer' = [timer EXCEPT ![p] = now + attempt[p] * BackoffUnit]
         /\ last' = NoOutput
         /\ UNCHANGED << postsCache, cacheTimestamp, storedAt, now, req, attempt, callNow >>
    ELSE StoreAndReturn(p, "fallback", << >>, getFallbackPosts, failed[p] + 1)

\* Variant: after the last attempt the error is thrown on (throw lastError)
\* and the route's catch block answers 500.
CatchRethrows(p) ==
    IF attempt[p] < maxRetries
    THEN /\ pc' = [pc EXCEPT ![p] = "backoff"]
         /\ failed' = [failed EXCEPT ![p] = failed[p] + 1]
         /\ timer' = [timer EXCEPT ![p] = now + attempt[p] * BackoffUnit]
         /\ last' = NoOutput
         /\ UNCHANGED << postsCache, cacheTimestamp, storedAt, now, req, attempt, callNow >>
    ELSE /\ pc' = [pc EXCEPT ![p] = "idle"]
         /\ req' = [req EXCEPT ![p] = NoRequest]
         /\ attempt' = [attempt EXCEPT ![p] = 0]
         /\ failed' = [failed EXCEPT ![p] = 0]
         /\ callNow' = [callNow EXCEPT ![p] = 0]
         /\ timer' = [timer EXCEPT ![p] = NoTimer]
         /\ last' = [proc |-> p, req |-> req[p], source |-> "none",
                     attempts |-> attempt[p], failed |-> failed[p] + 1,
                     wp |-> << >>, posts |-> Null,
                     response |-> Box(ServerErrorResponse(req[p].route, "fetch failed"))]
         /\ UNCHANGED << postsCache, cacheTimestamp, storedAt, now >>

\* The catch block: wait attempt * 2000 ms and loop, or, after the last
\* attempt, leave the loop and return the fallback posts.
Catch(p) ==
    IF attempt[p] < maxRetries
    THEN /\ pc' = [pc EXCEPT ![p] = "backoff"]
         /\ failed' = [failed EXCEPT ![p] = failed[p] + 1]
         /\ timer' = [timer EXCEPT ![p] = now + attempt[p] * BackoffUnit]
         /\ last' = NoOutput
         /\ UNCHANGED << postsCache, cacheTimestamp, storedAt, now, req, attempt, callNow >>
    ELSE StoreAndReturn(p, "fallback", << >>, getFallbackPosts, failed[p] + 1)

\* fetch() rejects: the network failed.
FetchRejects(p) ==
    /\ pc[p] = "fetch"
    /\ Catch(p)

\* The 20 s timer fires before the response: controller.abort() rejects fetch().
AbortFires(p) ==
    /\ pc[p] = "fetch"
    /\ now >= timer[p]
    /\ Catch(p)

\* Variant: the status is not looked at and the body is read all the same.
StatusNotOkIgnored(p) ==
    /\ pc[p] = "fetch"
    /\ pc' = [pc EXCEPT ![p] = "json"]
    /\ timer' = [timer EXCEPT ![p] = NoTimer]
    /\ last' = NoOutput
    /\ UNCHANGED << postsCache, cacheTimestamp, storedAt, now, req, attempt, failed, callNow >>

\* The response arrives with a status that is not OK: clearTimeout, then throw.
StatusNotOk(p) ==
    /\ pc[p] = "fetch"
    /\ Catch(p)

\* The response arrives with an OK status: clearTimeout, then await response.json().
StatusOk(p) ==
    /\ pc[p] = "fetch"
    /\ pc' = [pc EXCEPT ![p] = "json"]
    /\ timer' = [timer EXCEPT ![p] = NoTimer]
    /\ last' = NoOutput
    /\ UNCHANGED << postsCache, cacheTimestamp, storedAt, now, req, attempt, failed, callNow >>

\* response.json() rejects, or yields something that is no array of posts.
BodyRejects(p) ==
    /\ pc[p] = "json"
    /\ Catch(p)

\* Variant: the empty array is not thrown on.
BodyArrivesUnchecked(p, wpPosts) ==
    /\ pc[p] = "json"
    /\ StoreAndReturn(p, "upstream", wpPosts, TransformAll(wpPosts), failed[p])

\* response.json() yields the array wpPosts: empty throws, otherwise the
\* transformed posts are returned.
BodyArrives(p, wpPosts) ==
    /\ pc[p] = "json"
    /\ IF Len(wpPosts) = 0
       THEN Catch(p)
       ELSE StoreAndReturn(p, "upstream", wpPosts, TransformAll(wpPosts), failed[p])

\* The backoff timer fires: the loop increments attempt and fetches again.
BackoffElapses(p) ==
    /\ pc[p] = "backoff"
    /\ now >= timer[p]
    /\ pc' = [pc EXCEPT ![p] = "fetch"]
    /\ attempt' = [attempt EXCEPT ![p] = attempt[p] + 1]
    /\ timer' = [timer EXCEPT ![p] = now + RequestTimeout]
    /\ last' = NoOutput
    /\ UNCHANGED << postsCache, cacheTimestamp, storedAt, now, req, failed, callNow >>

(* ------------------------------------------------------------------ *)
(* Time                                                                *)
(* ------------------------------------------------------------------ *)

Deadlines == {timer[p] : p \in Procs} \ {NoTimer}

\* The instants just before and at the expiry of the cache.  They are visited
\* between requests only: while a request is in flight the clock moves from
\* timer to timer.
ExpiryInstants ==
    IF postsCache # Null /\ \A p \in Procs : pc[p] = "idle"
    THEN {cacheTimestamp + CACHE_DURATION - 1, cacheTimestamp + CACHE_DURATION}
    ELSE {}

\* The longest a call can spend in timers: three 20 s timeouts and the waits
\* of 2 s and 4 s between them.
TimerBudget ==
    maxRetries * RequestTimeout + BackoffUnit * ((maxRetries * (maxRetries - 1)) \div 2)

\* The clock advances to a pending timer or to the cache's expiry; it never
\* passes a pending timer (timers fire on time).
Tick ==
    /\ \E t \in Deadlines \cup ExpiryInstants :
          /\ t > now
          /\ \A d \in Deadlines : t <= d
          /\ t <= MaxTime \/ t \in Deadlines
          /\ now' = t
    /\ last' = NoOutput
    /\ UNCHANGED << postsCache, cacheTimestamp, storedAt, pc, req, attempt, failed,
                    callNow, timer >>

\* While a handler awaits response.json() its timer is cleared and the clock
\* runs on with the body outstanding: the instant visited is the first one
\* after every timer the call could have set.
Stall ==
    /\ \E p \in Procs :
          /\ pc[p] = "json"
          /\ callNow[p] + TimerBudget + 1 > now
          /\ \A d \in Deadlines : callNow[p] + TimerBudget + 1 <= d
          /\ now' = callNow[p] + TimerBudget + 1
    /\ last' = NoOutput
    /\ UNCHANGED << postsCache, cacheTimestamp, storedAt, pc, req, attempt, failed,
                    callNow, timer >>

(* ------------------------------------------------------------------ *)
(* Specifications                                                      *)
(* ------------------------------------------------------------------ *)

Handler(p, bodies) ==
    \/ FetchRejects(p)
    \/ AbortFires(p)
    \/ StatusNotOk(p)
    \/ StatusOk(p)
    \/ BodyRejects(p)
    \/ \E wpPosts \in bodies : BodyArrives(p, wpPosts)
    \/ BackoffElapses(p)

\* Concurrent callers of getAllPosts sharing the cache.
Next ==
    \/ \E p \in Procs, r \in LibRequests : CacheHit(p, r) \/ CacheMiss(p, r)
    \/ \E p \in Procs : Handler(p, FeedBodies)
    \/ Tick

Spec == Init /\ [][Next]_vars

\* One route request at a time, through the three routes.
NextRoutes ==
    \/ \E r \in RouteRequests :
          BadRequest("r1", r) \/ CacheHit("r1", r) \/ CacheMiss("r1", r)
    \/ Handler("r1", Bodies)
    \/ Tick

SpecRoutes == Init /\ [][NextRoutes]_vars

\* One caller at a time of getAllTags.
NextTags ==
    \/ \E r \in TagsCalls : CacheHit("r1", r) \/ CacheMiss("r1", r)
    \/ Handler("r1", Bodies)
    \/ Tick

SpecTags == Init /\ [][NextTags]_vars

\* One caller at a time of getAllPosts, with an upstream that may stall
\* while the body is read.
NextStall ==
    \/ \E r \in LibRequests : CacheHit("r1", r) \/ CacheMiss("r1", r)
    \/ Handler("r1", FeedBodies)
    \/ Tick
    \/ Stall

SpecStall == Init /\ [][NextStall]_vars

(* ------------------------------------------------------------------ *)
(* What the claims are stated over                                     *)
(* ------------------------------------------------------------------ *)

\* The transformed fields of the four feed posts, worked out by hand from the
\* JavaScript semantics of the expressions in transformWordPressPost.
ExpectedExcerpt(id) ==
    CASE id = 101 -> << "a", " ", "b" >>
      [] id = 102 -> << "a", " ", "<", " ", "b" >>
      [] id = 7   -> << "c", ">", "<" >>
      [] OTHER    -> << "d" >>

ExpectedTags(id) ==
    CASE id = 101 -> << "nhs", "wordpress" >>
      [] id = 7   -> << "NHS", "nhs" >>
      [] OTHER    -> << >>

ExpectedAuthor(id) == IF id = 101 THEN "Jane Doe" ELSE "Faith Nte"

ExpectedCover(id) == IF id = 101 THEN "https://img/alpha.png" ELSE Undefined

\* posts is the transformation of the upstream array wp, post by post.
TransformedFrom(posts, wp) ==
    /\ Len(posts) = Len(wp)
    /\ \A i \in 1..Len(wp) :
          /\ posts[i].id = ToString(wp[i].id)
          /\ posts[i].slug = wp[i].slug
          /\ posts[i].title = wp[i].title
          /\ posts[i].content = wp[i].content
          /\ posts[i].publishedAt = wp[i].date
          /\ posts[i].updatedAt = wp[i].modified
          /\ posts[i].featured = FALSE
          /\ posts[i].published = (wp[i].status = "publish")
          /\ posts[i].excerpt = ExpectedExcerpt(wp[i].id)
          /\ posts[i].tags = ExpectedTags(wp[i].id)
          /\ posts[i].author = ExpectedAuthor(wp[i].id)
          /\ posts[i].coverImage = ExpectedCover(wp[i].id)

\* posts is the list of the three hard-coded posts.
IsFallback(posts) ==
    /\ Len(posts) = 3
    /\ posts[1].id = "49" /\ posts[2].id = "22" /\ posts[3].id = "7"
    /\ posts[1].slug = "gp-website-with-wordpress-nightingale-theme"
    /\ posts[2].slug = "9-nhs-app-uptake-in-8-months"
    /\ posts[3].slug = "care-home-proxy-access"
    /\ \A i \in 1..3 : posts[i].featured /\ posts[i].published

\* In this step handler p calls getAllPosts.
CallBy(p) ==
    /\ pc[p] = "idle"
    /\ \/ pc'[p] = "fetch"
       \/ last'.proc = p /\ last'.posts # Null

\* In this step handler p's fetchWordPressPosts returns and getAllPosts stores.
StoreBy(p) == pc[p] # "idle" /\ pc'[p] = "idle"

(* ------------------------------------------------------------------ *)
(* C1 - C5: retry, fallback and the cache                              *)
(* ------------------------------------------------------------------ *)

\* C1: fetchWordPressPosts makes at most three attempts, each begun only after
\* the one before has failed; it stops at the first attempt that succeeds and
\* returns that attempt's posts transformed, in the upstream's order and
\* number; it returns the three fallback posts exactly when three attempts
\* have failed.
C1_RetryThenFallback ==
    /\ \A p \in Procs :
          /\ attempt[p] <= 3
          /\ pc[p] \in {"fetch", "json"} => attempt[p] >= 1 /\ failed[p] = attempt[p] - 1
          /\ pc[p] = "backoff" => failed[p] = attempt[p] /\ failed[p] < 3
    /\ last.source = "upstream" =>
          /\ last.attempts \in 1..3
          /\ last.failed = last.attempts - 1
          /\ last.wp # << >>
          /\ TransformedFrom(Unbox(last.posts), last.wp)
          /\ pc[last.proc] = "idle"
    /\ last.source = "fallback" =>
          /\ last.failed = 3
          /\ last.attempts = 3
          /\ IsFallback(Unbox(last.posts))
          /\ pc[last.proc] = "idle"

\* C1 witness: the third attempt succeeds after two failures and its two or
\* more posts are returned.
C1_Witness ==
    /\ last.source = "upstream"
    /\ last.failed = 2
    /\ Len(last.wp) >= 2

\* C2: a getAllPosts call made while postsCache is non-null and less than
\* 300000 ms have passed since cacheTimestamp returns the cached list, starts
\* no fetch and leaves postsCache and cacheTimestamp alone; at 300000 ms or
\* more, or with no cache, it starts a fetch.
C2_CacheWindow ==
    [][\A p \in Procs :
          CallBy(p) =>
             IF postsCache # Null /\ now - cacheTimestamp < 300000
             THEN /\ last'.proc = p
                  /\ last'.source = "cache"
                  /\ last'.posts = postsCache
                  /\ pc'[p] = "idle"
                  /\ UNCHANGED << postsCache, cacheTimestamp >>
             ELSE /\ pc'[p] = "fetch"
                  /\ attempt'[p] = 1
                  /\ last'.proc # p]_vars

\* C2 witness: a call answered from the cache in the last millisecond of its
\* validity.
C2_Witness ==
    /\ last.source = "cache"
    /\ now - cacheTimestamp = 299999

\* C3 (as claimed): a non-null postsCache never holds the fallback posts.
C3_NeverCachesFallback ==
    postsCache # Null => ~IsFallback(Unbox(postsCache))

\* C4 (as claimed): every call made less than 5 minutes after the result was
\* stored returns that result, and a stored result is replaced only by a call
\* that starts 5 minutes or more after it was stored.
C4_HeldSinceStored ==
    [][\A p \in Procs :
          /\ (CallBy(p) /\ postsCache # Null /\ now - storedAt < CACHE_DURATION) =>
                /\ last'.proc = p
                /\ last'.posts = postsCache
                /\ UNCHANGED postsCache
          /\ (StoreBy(p) /\ postsCache # Null) =>
                callNow[p] - storedAt >= CACHE_DURATION]_vars

\* C5: a refresh replaces the cache wholesale: when a call that fetched
\* finishes, postsCache is exactly the list that fetch returned (the
\* transformed upstream posts, or the fallback posts), and the call returns it.
C5_ReplacedWholesale ==
    [][\A p \in Procs :
          StoreBy(p) =>
             /\ postsCache' # Null
             /\ last'.proc = p
             /\ last'.posts = postsCache'
             /\ cacheTimestamp' = callNow[p]
             /\ IF last'.source = "upstream"
                THEN TransformedFrom(Unbox(postsCache'), last'.wp)
                ELSE last'.source = "fallback" /\ IsFallback(Unbox(postsCache'))]_vars

\* C5 witness: a refresh begun when the earlier cache contents had expired
\* has stored the fallback posts.
C5_Witness ==
    /\ last.source = "fallback"
    /\ postsCache = last.posts
    /\ cacheTimestamp >= CACHE_DURATION

(* ------------------------------------------------------------------ *)
(* C6 - C10: the routes                                                *)
(* ------------------------------------------------------------------ *)

MetaFields ==
    {"id", "title", "slug", "excerpt", "author", "publishedAt", "tags", "featured",
     "coverImage"}

PostFields == MetaFields \cup {"content", "updatedAt", "published"}

\* The keys of `fields` that JSON writes for post: coverImage only when set.
WrittenFields(fields, post) ==
    IF post.coverImage = Undefined THEN fields \ {"coverImage"} ELSE fields

\* m is the metadata of post as it appears in a JSON answer.
IsMetaOf(m, post) ==
    /\ DOMAIN m = WrittenFields(MetaFields, post)
    /\ \A k \in DOMAIN m : m[k] = post[k]

\* The route answered 200 on the list getAllPosts returned.
Answered(route) ==
    /\ last.req.route = route
    /\ last.response # Null
    /\ last.posts # Null

ReqPage == IF last.req.page = Null THEN 1 ELSE last.req.page[1]

ReqLimit == IF last.req.limit = Null THEN 10 ELSE last.req.limit[1]

\* The ids of the posts on pages k..totalPages, one page after the other.
RECURSIVE IdsFromPage(_, _, _, _)
IdsFromPage(all, limit, k, totalPages) ==
    IF k > totalPages THEN << >>
    ELSE LET page == getPaginatedPosts(all, k, limit).posts
         IN  [i \in 1..Len(page) |-> page[i].id] \o IdsFromPage(all, limit, k + 1, totalPages)

\* C6: for page >= 1 and limit >= 1 the paginated answer holds the metadata of
\* the posts at indices (page-1)*limit up to but excluding page*limit, in list
\* order; totalPosts is the length of the list, totalPages its ceiling
\* quotient by limit, currentPage = page, hasPrev = (page > 1), hasNext holds
\* exactly when page+1 has a post; pages 1..totalPages hold every post once.
C6_Pagination ==
    (Answered("blog") /\ ~last.req.featured /\ ReqPage >= 1) =>
        LET all   == Unbox(last.posts)
            n     == Len(all)
            d     == Unbox(last.response).body.data
            lo    == (ReqPage - 1) * ReqLimit
            hi    == IF ReqPage * ReqLimit < n THEN ReqPage * ReqLimit ELSE n
            count == IF hi > lo THEN hi - lo ELSE 0
            tp    == d.pagination.totalPages
        IN  /\ Unbox(last.response).status = 200
            /\ Len(d.posts) = count
            /\ \A i \in 1..count : IsMetaOf(d.posts[i], all[lo + i])
            /\ d.pagination.totalPosts = n
            /\ tp * ReqLimit >= n /\ (tp - 1) * ReqLimit < n
            /\ d.pagination.currentPage = ReqPage
            /\ d.pagination.hasPrev = (ReqPage > 1)
            /\ d.pagination.hasNext = (ReqPage * ReqLimit < n)
            /\ IdsFromPage(all, ReqLimit, 1, tp) = [i \in 1..n |-> all[i].id]

\* C6 witness: the second, last and partly filled page of a three-post list.
C6_Witness ==
    /\ Answered("blog") /\ ~last.req.featured
    /\ ReqPage = 2 /\ ReqLimit = 2
    /\ Len(Unbox(last.posts)) = 3
    /\ Len(Unbox(last.response).body.data.posts) = 1

\* The list the records of a list answer are built from: the posts, or for
\* the featured branch the posts marked featured.
ViewSources ==
    LET all == Unbox(last.posts)
    IN  IF last.req.route = "blog" /\ last.req.featured
        THEN {[all[i] EXCEPT !.featured = TRUE] : i \in 1..Len(all)}
        ELSE {all[i] : i \in 1..Len(all)}

ViewRecords ==
    LET d == Unbox(last.response).body.data
    IN  IF last.req.route = "blog" /\ ~last.req.featured THEN d.posts ELSE d

\* C7: the metadata view omits content: every record of a paginated, featured
\* or tag answer carries the nine metadata fields (coverImage when the post has
\* one), each with the value of the post it was built from, and no content;
\* the slug route's record does carry content.
C7_MetaOmitsContent ==
    /\ (Answered("blog") \/ Answered("tag")) =>
          \A i \in 1..Len(ViewRecords) :
             /\ "content" \notin DOMAIN ViewRecords[i]
             /\ DOMAIN ViewRecords[i] \subseteq MetaFields
             /\ \E post \in ViewSources : IsMetaOf(ViewRecords[i], post)
    /\ (Answered("slug") /\ Unbox(last.response).status = 200) =>
          "content" \in DOMAIN Unbox(last.response).body.data
    /\ last.posts # Null =>
          \A i \in 1..Len(Unbox(last.posts)) :
             DOMAIN toMeta(Unbox(last.posts)[i]) = MetaFields

\* C7 witness: a tag answer listing two posts, one with and one without a
\* cover image.
C7_Witness ==
    /\ Answered("tag")
    /\ Len(ViewRecords) = 2
    /\ "coverImage" \in DOMAIN ViewRecords[1]
    /\ "coverImage" \notin DOMAIN ViewRecords[2]

\* r is a well-formed envelope for its status.
EnvelopeOk(r) ==
    /\ r.status \in {200, 400, 404, 500}
    /\ r.body.success = (r.status = 200)
    /\ IF r.body.success
       THEN "data" \in DOMAIN r.body /\ "error" \notin DOMAIN r.body
       ELSE /\ "data" \notin DOMAIN r.body
            /\ "error" \in DOMAIN r.body
            /\ r.body.error \in {"Slug parameter is required", "Post not found",
                                 "Tag parameter is required", "Failed to fetch blog posts",
                                 "Failed to fetch blog post",
                                 "Failed to fetch blog posts by tag"}

\* C8: every answer is an envelope whose success is true exactly when the
\* status is 200; a success carries data and no error, a failure (400, 404,
\* 500) carries an error string and no data.  The 500 envelopes of the catch
\* blocks, which no request reaches, are checked as written.
C8_Envelope ==
    /\ last.response # Null => EnvelopeOk(Unbox(last.response))
    /\ \A route \in {"blog", "slug", "tag"} :
          EnvelopeOk(ServerErrorResponse(route, "Unknown error"))

\* C8 witness: a 404 answer.
C8_Witness ==
    /\ last.response # Null
    /\ Unbox(last.response).status = 404

\* The slug or tag parameter of the finished request is undefined or empty.
ParamMissing(param) == IF param = Null THEN TRUE ELSE param[1] = ""

\* C9: the slug route answers 400 'Slug parameter is required' when the slug
\* is missing or empty, without calling getAllPosts or changing the cache;
\* 404 'Post not found' when no post of the list has that slug; otherwise 200
\* with the full record of the first post in list order with that slug.
C9_SlugRoute ==
    /\ [](last.req.route = "slug" =>
            LET r == Unbox(last.response)
            IN  IF ParamMissing(last.req.slug)
                THEN /\ r.status = 400
                     /\ r.body.error = "Slug parameter is required"
                     /\ last.posts = Null
                ELSE LET all  == Unbox(last.posts)
                         slug == last.req.slug[1]
                         hits == {i \in 1..Len(all) : all[i].slug = slug}
                     IN  IF hits = {}
                         THEN r.status = 404 /\ r.body.error = "Post not found"
                         ELSE LET first == CHOOSE i \in hits : \A j \in hits : i <= j
                              IN  /\ r.status = 200
                                  /\ DOMAIN r.body.data = WrittenFields(PostFields, all[first])
                                  /\ \A k \in DOMAIN r.body.data :
                                        r.body.data[k] = all[first][k])
    /\ [][(last'.req.route = "slug" /\ ParamMissing(last'.req.slug)) =>
             UNCHANGED << postsCache, cacheTimestamp, pc, attempt >>]_vars

\* C9 witness: the slug "alpha" is carried by two posts of the list and the
\* route answers 200.
C9_Witness ==
    /\ Answered("slug")
    /\ last.req.slug = Box("alpha")
    /\ Unbox(last.response).status = 200
    /\ Cardinality({i \in 1..Len(Unbox(last.posts)) :
                      Unbox(last.posts)[i].slug = "alpha"}) = 2

\* The posts of all that carry tag, in list order.
RECURSIVE Tagged(_, _)
Tagged(all, tag) ==
    IF all = << >> THEN << >>
    ELSE (IF \E i \in 1..Len(Head(all).tags) : Head(all).tags[i] = tag
          THEN << Head(all) >> ELSE << >>) \o Tagged(Tail(all), tag)

\* C10: the tag route answers 400 when the tag is missing or empty, and
\* otherwise 200 with the metadata of exactly the posts whose tags contain the
\* parameter as an exact, case-sensitive element, in list order; a tag no post
\* carries gives 200 with an empty array.
C10_TagRoute ==
    last.req.route = "tag" =>
        LET r == Unbox(last.response)
        IN  IF ParamMissing(last.req.tag)
            THEN r.status = 400 /\ ~r.body.success /\ last.posts = Null
            ELSE LET want == Tagged(Unbox(last.posts), last.req.tag[1])
                 IN  /\ r.status = 200
                     /\ Len(r.body.data) = Len(want)
                     /\ \A i \in 1..Len(want) : IsMetaOf(r.body.data[i], want[i])

\* C10 witness: of two posts tagged "nhs" and "NHS, nhs", the tag "NHS"
\* selects only the second.
C10_Witness ==
    /\ Answered("tag")
    /\ last.req.tag = Box("NHS")
    /\ Len(Tagged(Unbox(last.posts), "nhs")) = 2
    /\ Len(Unbox(last.response).body.data) = 1

(* ------------------------------------------------------------------ *)
(* C11 - C12: featured posts and tags                                  *)
(* ------------------------------------------------------------------ *)

\* C11: GET /api/blog?featured=true answers 200 with the metadata of the
\* first min(3, N) posts of the list getAllPosts returned, in list order, each
\* with featured = true and every other metadata field as in the post,
\* whatever page and limit are given; getFeaturedPosts returns the same posts
\* as full records, marked featured.
C11_FeaturedBranch ==
    (Answered("blog") /\ last.req.featured) =>
        LET all   == Unbox(last.posts)
            r     == Unbox(last.response)
            count == IF Len(all) < 3 THEN Len(all) ELSE 3
            full  == getFeaturedPosts(all)
        IN  /\ r.status = 200
            /\ r.body.success
            /\ Len(r.body.data) = count
            /\ \A i \in 1..count :
                  /\ DOMAIN r.body.data[i] = WrittenFields(MetaFields, all[i])
                  /\ r.body.data[i].featured = TRUE
                  /\ \A k \in DOMAIN r.body.data[i] \ {"featured"} :
                        r.body.data[i][k] = all[i][k]
            /\ Len(full) = count
            /\ \A i \in 1..count :
                  /\ DOMAIN full[i] = PostFields
                  /\ full[i].featured = TRUE
                  /\ \A k \in PostFields \ {"featured"} : full[i][k] = all[i][k]

\* C11 witness: a featured answer with page and limit given, on a list of
\* four posts none of which was featured: three records, all featured.
C11_Witness ==
    /\ Answered("blog") /\ last.req.featured
    /\ last.req.page # Null /\ last.req.limit # Null
    /\ Len(Unbox(last.posts)) = 4
    /\ \A i \in 1..4 : ~Unbox(last.posts)[i].featured
    /\ Len(Unbox(last.response).body.data) = 3

\* The place of each tag in ascending code-unit order ("N" is 78, "c" 99,
\* "d" 100, "n" 110, "w" 119; "website" and "wordpress" part at "e" < "o").
TagRank(tag) ==
    CASE tag = "NHS" -> 1
      [] tag = "care-homes" -> 2
      [] tag = "digital-transformation" -> 3
      [] tag = "nhs" -> 4
      [] tag = "website" -> 5
      [] tag = "wordpress" -> 6

\* C12: getAllTags returns exactly the set union of the tags of the posts of
\* the current list: every tag of some post appears, nothing else appears, no
\* tag appears twice, and the array is in ascending order.
C12_AllTags ==
    (last.req.route = "tags" /\ last.response # Null) =>
        LET all    == Unbox(last.posts)
            result == Unbox(last.response)
            union  == UNION {{all[i].tags[j] : j \in 1..Len(all[i].tags)} : i \in 1..Len(all)}
        IN  /\ {result[i] : i \in 1..Len(result)} = union
            /\ Len(result) = Cardinality(union)
            /\ \A i \in 1..Len(result), j \in 1..Len(result) :
                  i < j => TagRank(result[i]) < TagRank(result[j])

\* C12 witness: the tags of a list in which "nhs" occurs on two posts and
\* "NHS" after "wordpress": the result is NHS, nhs, wordpress.
C12_Witness ==
    /\ last.req.route = "tags" /\ last.response # Null
    /\ last.source = "upstream"
    /\ Unbox(last.response) = << "NHS", "nhs", "wordpress" >>

(* ------------------------------------------------------------------ *)
(* C13 - C15: timeout, backoff and what counts as a failure            *)
(* ------------------------------------------------------------------ *)

\* C13 (as claimed): every upstream attempt is bounded by the 20 s timeout,
\* headers and body alike, so every call returns: a first attempt is never
\* still awaiting the upstream more than 20000 ms after its call began, and no
\* call is in progress after the 66000 ms that three bounded attempts and the
\* two waits between them can take.
C13_AttemptsBounded ==
    \A p \in Procs :
       /\ (pc[p] \in {"fetch", "json"} /\ attempt[p] = 1) => now - callNow[p] <= 20000
       /\ pc[p] # "idle" => now - callNow[p] <= 3 * 20000 + 2000 + 4000

\* C14 (as claimed): after failed attempt n, for n = 1, 2, 3, the routine
\* waits n x 2000 ms (2 s, 4 s, 6 s), and the next attempt starts only when
\* that wait has fully elapsed.
C14_LinearBackoff ==
    [][\A p \in Procs :
          /\ (\/ failed'[p] = failed[p] + 1
              \/ last'.proc = p /\ last'.source = "fallback") =>
                /\ pc'[p] = "backoff"
                /\ timer'[p] = now + attempt[p] * 2000
          /\ (pc[p] = "backoff" /\ pc'[p] # "backoff") =>
                /\ pc'[p] = "fetch"
                /\ attempt'[p] = attempt[p] + 1
                /\ now >= timer[p]]_vars

\* The step counts a failed attempt of p against the budget of three: the
\* call goes on to wait for the next attempt, or, on the third failure,
\* returns the fallback posts.
FailureCounted(p) ==
    IF attempt[p] < 3
    THEN /\ pc'[p] = "backoff"
         /\ failed'[p] = failed[p] + 1
         /\ attempt'[p] = attempt[p]
         /\ last'.proc # p
    ELSE /\ last'.proc = p
         /\ last'.source = "fallback"
         /\ last'.failed = 3

\* C15: an attempt counts as failed, and is retried under the same budget,
\* when the request throws or is aborted, when the status is not OK and when
\* the body is an empty list; a call returns upstream posts only from an
\* attempt whose status was OK and whose body was a non-empty list.
C15_FailureCases ==
    [][\A p \in Procs :
          /\ (\/ FetchRejects(p)
              \/ AbortFires(p)
              \/ StatusNotOk(p)
              \/ BodyArrives(p, << >>)) => FailureCounted(p)
          /\ (last'.proc = p /\ last'.source = "upstream") =>
                /\ pc[p] = "json"
                /\ last'.wp # << >>
                /\ last'.attempts = attempt[p]
                /\ last'.failed = attempt[p] - 1]_vars

\* C15 witness: a call whose three attempts have all been counted as failed.
C15_Witness ==
    /\ last.source = "fallback"
    /\ last.attempts = 3
    /\ last.failed = 3
    /\ now >= 6000

(* ------------------------------------------------------------------ *)
(* C16 - C17: the shared cache under concurrent calls                  *)
(* ------------------------------------------------------------------ *)

\* What a call in progress holds of its own.
OwnState(q) == << pc[q], attempt[q], failed[q], timer[q], callNow[q] >>

\* C16: the cache is shared and unsynchronized.  A call that finds no valid
\* cache starts its own fetch at attempt 1, whether or not another call's
\* fetch is in flight; no step of one call moves or releases another call,
\* so each runs its own retry sequence; and each call that fetched writes
\* postsCache (the list it fetched) and cacheTimestamp (its own `now`) when
\* it finishes.
C16_Unsynchronized ==
    [][\A p \in Procs : \A q \in Procs \ {p} :
          /\ (CallBy(p) /\ ~(postsCache # Null /\ now - cacheTimestamp < 300000)) =>
                /\ pc'[p] = "fetch"
                /\ attempt'[p] = 1
                /\ timer'[p] = now + 20000
          /\ OwnState(p)' # OwnState(p) => OwnState(q)' = OwnState(q)
          /\ StoreBy(p) =>
                /\ last'.proc = p
                /\ last'.source \in {"upstream", "fallback"}
                /\ last'.attempts \in 1..3
                /\ postsCache' = last'.posts
                /\ cacheTimestamp' = callNow[p]
                /\ storedAt' = now]_vars

\* C16 witness: two calls began at time 0 on the empty cache; r1 has gone
\* through all three attempts and written the fallback posts while r2 is
\* still in its own first attempt.
C16_Witness ==
    /\ last.proc = "r1"
    /\ last.source = "fallback"
    /\ postsCache = last.posts
    /\ pc["r2"] = "json"
    /\ attempt["r2"] = 1
    /\ callNow["r2"] = 0

\* C17 (as claimed): the result of a later-started refresh is never
\* overwritten by that of an earlier-started one: cacheTimestamp never
\* decreases, and a finishing refresh replaces a stored result only if it
\* started no earlier than the refresh that stored it.
C17_NewerNeverOverwritten ==
    [][/\ cacheTimestamp' >= cacheTimestamp
       /\ \A p \in Procs :
             (StoreBy(p) /\ postsCache # Null) => callNow[p] >= cacheTimestamp]_vars

(* ------------------------------------------------------------------ *)
(* C18 - C20: fallback answers, non-empty lists, pages out of range    *)
(* ------------------------------------------------------------------ *)

\* The request reached getAllPosts (it was not turned away with 400).
CalledGetAllPosts ==
    /\ last.proc # "none"
    /\ ~(last.req.route = "slug" /\ ParamMissing(last.req.slug))
    /\ ~(last.req.route = "tag" /\ ParamMissing(last.req.tag))

\* C18: no upstream failure surfaces as a rejected getAllPosts or as a 500:
\* every request that reached getAllPosts got a list, whatever failed on the
\* way, and was answered 200 or 404; when all three attempts failed the list
\* is the fallback posts, and GET /api/blog then answers 200 listing the three
\* of them.
C18_NoFailureSurfaces ==
    /\ last.response # Null => Unbox(last.response).status # 500
    /\ CalledGetAllPosts =>
          /\ last.posts # Null
          /\ Unbox(last.response).status \in {200, 404}
          /\ last.failed = 3 => IsFallback(Unbox(last.posts))
    /\ (last.source = "fallback" /\ last.req.route = "blog" /\ ~last.req.featured
          /\ ReqPage = 1 /\ ReqLimit >= 3) =>
          LET r == Unbox(last.response)
          IN  /\ r.status = 200
              /\ r.body.success
              /\ [i \in 1..Len(r.body.data.posts) |-> r.body.data.posts[i].id]
                    = << "49", "22", "7" >>
              /\ r.body.data.pagination.totalPosts = 3

\* C18 witness: GET /api/blog without parameters, answered from the fallback
\* posts after the third attempt was aborted by its timeout.
C18_Witness ==
    /\ last.source = "fallback"
    /\ last.req.route = "blog" /\ ~last.req.featured
    /\ last.req.page = Null /\ last.req.limit = Null
    /\ now >= 66000
    /\ Unbox(last.response).status = 200
    /\ Len(Unbox(last.response).body.data.posts) = 3

\* C19: every list getAllPosts returns and every non-null postsCache holds at
\* least one post; hence every paginated answer with limit >= 1 reports
\* totalPosts >= 1 and totalPages >= 1.
C19_NeverEmpty ==
    /\ postsCache # Null => Len(Unbox(postsCache)) >= 1
    /\ last.posts # Null => Len(Unbox(last.posts)) >= 1
    /\ (Answered("blog") /\ ~last.req.featured /\ ReqLimit >= 1) =>
          /\ Unbox(last.response).body.data.pagination.totalPosts >= 1
          /\ Unbox(last.response).body.data.pagination.totalPages >= 1

\* C19 witness: a paginated answer on the shortest list, one post got from
\* the second attempt, with more room on the page than posts.
C19_Witness ==
    /\ Answered("blog") /\ ~last.req.featured
    /\ last.source = "upstream"
    /\ last.failed = 1
    /\ Len(Unbox(last.posts)) = 1
    /\ ReqLimit = 3
    /\ Unbox(last.response).body.data.pagination.totalPages = 1

\* C20 (as claimed): for every page outside 1..totalPages, zero and negative
\* pages included, and every limit >= 1, the paginated answer has an empty
\* posts list, and totalPosts and totalPages are those of an in-range page.
C20_OutOfRangeEmpty ==
    (Answered("blog") /\ ~last.req.featured /\ ReqLimit >= 1) =>
        LET all == Unbox(last.posts)
            d   == Unbox(last.response).body.data
            tp  == getPaginatedPosts(all, 1, ReqLimit).pagination.totalPages
        IN  (ReqPage < 1 \/ ReqPage > tp) =>
               /\ d.posts = << >>
               /\ d.pagination.totalPosts = Len(all)
               /\ d.pagination.totalPages = tp

====
